---- MODULE Spec2Model ----
(***************************************************************************)
(* Mergington High School API (src/src/app.py): account registration and   *)
(* login, and token-protected signup / unregister against the activity     *)
(* rosters.                                                                *)
(*                                                                         *)
(* The endpoints are plain `def` handlers, which FastAPI runs on a pool of *)
(* worker threads, so two handlers interleave between their database       *)
(* calls.  Every database call is one atomic step, so a handler with two   *)
(* database calls is two actions.  verify_token reads only the request and *)
(* the clock; it is taken in one step with the database call that follows  *)
(* it.  A handler reads a field of its (immutable) request at the step     *)
(* that first uses it, and each action is parameterised by what it reads.  *)
(*                                                                         *)
(* database.py, auth.py and models.py are imported by app.py (lines 17-20) *)
(* but are not among the source files; their functions are modelled from   *)
(* the specification's data model (section 3) and from the way app.py      *)
(* calls them and words their failures.                                    *)
(***************************************************************************)
EXTENDS Naturals, FiniteSets

\* ---------------------------------------------------------------- bounds

\* The clock runs from 0 to MaxTime; a token lives
\* ACCESS_TOKEN_EXPIRE_MINUTES ticks, so tokens expire within the run.
MaxTime == 1
\* Capacity of the smaller seeded activity (the seed uses 10..30).
MaxCap == 1

\* auth.ACCESS_TOKEN_EXPIRE_MINUTES, in clock ticks.
ACCESS_TOKEN_EXPIRE_MINUTES == 1

\* Worker threads that can be inside a handler at once.
Threads == {"w1", "w2"}
Emails == {"emma@mergington.edu", "liam@mergington.edu"}
Passwords == {"pw1", "pw2"}
\* The seeded activities, and the names a request can carry.
Activities == {"Chess Club", "Math Club"}
ActivityNames == Activities \cup {"Robotics"}

VARIABLES
    users,          \* database: the rows of the users table
    participants,   \* database: per activity, rows per participant email
    now,            \* the clock
    issued,         \* every token create_access_token has returned
    pc,             \* per thread: where its handler stands
    local,          \* per thread: the handler's local variables
    response        \* what the step just taken answered (NoResponse: not yet)

vars == <<users, participants, now, issued, pc, local, response>>

\* ------------------------------------------------------------ database.py

NoUser == [email |-> "-", password_hash |-> "-", role |-> "-"]
NoActivity == [name |-> "-", max_participants |-> 0, participant_count |-> 0]

\* seed_activities(): the capacity of each seeded activity.
max_participants == [a \in Activities |-> IF a = "Chess Club" THEN MaxCap ELSE MaxCap + 1]

\* The number of participant rows of one activity.
participant_count(P, name) ==
    LET RECURSIVE Sum(_)
        Sum(S) == IF S = {} THEN 0
                  ELSE LET e == CHOOSE x \in S : TRUE IN P[name][e] + Sum(S \ {e})
    IN Sum(Emails)

get_user(U, email) ==
    IF \E row \in U : row.email = email
    THEN CHOOSE row \in U : row.email = email
    ELSE NoUser

\* INSERT under the unique email: False when the email has a row.
create_user(U, email, password_hash) ==
    IF \E row \in U : row.email = email
    THEN [ok |-> FALSE, users |-> U]
    ELSE [ok |-> TRUE,
          users |-> U \cup {[email |-> email, password_hash |-> password_hash,
                             role |-> "student"]}]

get_activity_by_name(P, name) ==
    IF name \in Activities
    THEN [name |-> name, max_participants |-> max_participants[name],
          participant_count |-> participant_count(P, name)]
    ELSE NoActivity

\* INSERT under the unique (activity, email): False when the activity is
\* unknown or the email is already a participant.  No capacity check.
signup_for_activity(P, name, email) ==
    IF name \in Activities /\ P[name][email] = 0
    THEN [ok |-> TRUE, participants |-> [P EXCEPT ![name][email] = @ + 1]]
    ELSE [ok |-> FALSE, participants |-> P]

\* DELETE of the (activity, email) rows: False when none was deleted.
unregister_from_activity(P, name, email) ==
    IF name \in Activities /\ P[name][email] > 0
    THEN [ok |-> TRUE, participants |-> [P EXCEPT ![name][email] = 0]]
    ELSE [ok |-> FALSE, participants |-> P]

\* ---------------------------------------------------------------- auth.py

hash_password(password) == <<"hashed", password>>

verify_password(password, password_hash) == hash_password(password) = password_hash

NoToken == [email |-> "-", role |-> "-", exp |-> 0, sig |-> "none"]

create_access_token(data, expires_delta, t) ==
    [email |-> data.email, role |-> data.role, exp |-> t + expires_delta, sig |-> "signed"]

\* The bearer dependency: the payload of a signed, unexpired token, else 401
\* (section 7 of the specification: 401 on auth failures).
verify_token(token, t) == token.sig = "signed" /\ t < token.exp

\* What a client can put in the Authorization header: nothing, a token it was
\* given, or one it signed itself.
ForgedTokens(t) ==
    {[email |-> e, role |-> "student", exp |-> t + ACCESS_TOKEN_EXPIRE_MINUTES,
      sig |-> "forged"] : e \in Emails}
Presentable(t) == issued \cup ForgedTokens(t) \cup {NoToken}

\* ------------------------------------------------------------ the handlers

NoLocal == [email |-> "-", name |-> "-", user |-> "-"]
\* lookups: the database calls the handler has made when it answers.
NoResponse == [status |-> 0, detail |-> "-", token |-> NoToken, lookups |-> 0]
Resp(status, detail, token, lookups) ==
    [status |-> status, detail |-> detail, token |-> token, lookups |-> lookups]

\* init_db() and seed_activities(), lines 35-36: no account yet.  The seeded
\* rosters (two participants of 10..30 places) are scaled down to empty
\* rosters of MaxCap and MaxCap + 1 places.
Init ==
    /\ users = {}
    /\ participants = [a \in Activities |-> [e \in Emails |-> 0]]
    /\ now = 0
    /\ issued = {}
    /\ pc = [t \in Threads |-> "idle"]
    /\ local = [t \in Threads |-> NoLocal]
    /\ response = NoResponse

Tick ==
    /\ response = NoResponse
    /\ now < MaxTime
    /\ now' = now + 1
    /\ response' = NoResponse
    /\ UNCHANGED <<users, participants, issued, pc, local>>

\* register, lines 113-114: the get_user check.
RegisterCheck(t, email) ==
    /\ response = NoResponse
    /\ pc[t] = "idle"
    /\ IF get_user(users, email) # NoUser
       THEN /\ response' = Resp(400, "Email already registered", NoToken, 1)
            /\ UNCHANGED <<pc, local>>
       ELSE /\ response' = NoResponse
            /\ pc' = [pc EXCEPT ![t] = "register_create"]
            /\ local' = [local EXCEPT ![t] = [NoLocal EXCEPT !.email = email]]
    /\ UNCHANGED <<users, participants, now, issued>>

\* register, line 117: what is stored as the password hash.
register_password_hash_plain(password) == <<"plain", password>>
register_password_hash(password) == hash_password(password)

\* register, line 118: the test of create_user's result.
create_failed_ignored(created) == FALSE
create_failed(created) == ~created.ok

\* register, lines 117-132: hash_password, create_user, the token.
RegisterCreate(t, password) ==
    /\ response = NoResponse
    /\ pc[t] = "register_create"
    /\ LET email == local[t].email
           password_hash == register_password_hash(password)
           created == create_user(users, email, password_hash)
           access_token == create_access_token([email |-> email, role |-> "student"],
                                               ACCESS_TOKEN_EXPIRE_MINUTES, now)
       IN IF create_failed(created)
          THEN /\ response' = Resp(400, "Failed to create user", NoToken, 2)
               /\ UNCHANGED <<users, issued>>
          ELSE /\ users' = created.users
               /\ issued' = issued \cup {access_token}
               /\ response' = Resp(200, "registered", access_token, 2)
    /\ pc' = [pc EXCEPT ![t] = "idle"]
    /\ local' = [local EXCEPT ![t] = NoLocal]
    /\ UNCHANGED <<participants, now>>

\* login, line 140: the test that rejects the login.
login_rejected_unknown_only(db_user, password) == db_user = NoUser
login_rejected(db_user, password) ==
    db_user = NoUser \/ ~verify_password(password, db_user.password_hash)

\* login, lines 136-154.
login(email, password) ==
    /\ response = NoResponse
    /\ LET db_user == get_user(users, email)
           access_token == create_access_token([email |-> db_user.email, role |-> db_user.role],
                                               ACCESS_TOKEN_EXPIRE_MINUTES, now)
       IN IF login_rejected(db_user, password)
          THEN /\ response' = Resp(401, "Invalid email or password", NoToken, 1)
               /\ UNCHANGED issued
          ELSE /\ response' = Resp(200, "logged in", access_token, 1)
               /\ issued' = issued \cup {access_token}
    /\ UNCHANGED <<users, participants, now, pc, local>>

\* get_activity, lines 167-172.
get_activity(activity_name) ==
    /\ response = NoResponse
    /\ LET activity == get_activity_by_name(participants, activity_name)
       IN response' = IF activity = NoActivity
                      THEN Resp(404, "Activity not found", NoToken, 1)
                      ELSE Resp(200, "activity", NoToken, 1)
    /\ UNCHANGED <<users, participants, now, issued, pc, local>>

\* signup_for_activity_endpoint, line 179: Depends(verify_token) raised 401.
signup_token_rejected_never(token) == FALSE
signup_token_rejected(token) == ~verify_token(token, now)

\* signup_for_activity_endpoint, line 187.
activity_is_full_strict(activity) == activity.participant_count > activity.max_participants
activity_is_full(activity) == activity.participant_count >= activity.max_participants

\* signup_for_activity_endpoint, lines 176-188: the token, the lookup and the
\* capacity check.
SignupCheck(t, token, activity_name) ==
    /\ response = NoResponse
    /\ pc[t] = "idle"
    /\ LET activity == get_activity_by_name(participants, activity_name)
       IN IF signup_token_rejected(token)
          THEN /\ response' = Resp(401, "Invalid or expired token", NoToken, 0)
               /\ UNCHANGED <<pc, local>>
          ELSE IF activity = NoActivity
          THEN /\ response' = Resp(404, "Activity not found", NoToken, 1)
               /\ UNCHANGED <<pc, local>>
          ELSE IF activity_is_full(activity)
          THEN /\ response' = Resp(400, "Activity is full", NoToken, 1)
               /\ UNCHANGED <<pc, local>>
          ELSE /\ response' = NoResponse
               /\ pc' = [pc EXCEPT ![t] = "signup_insert"]
               /\ local' = [local EXCEPT ![t] = [NoLocal EXCEPT !.user = token.email,
                                                               !.name = activity_name]]
    /\ UNCHANGED <<users, participants, now, issued>>

\* signup_for_activity_endpoint, line 191: the test of signup_for_activity's
\* result.
signup_failed_ignored(done) == FALSE
signup_failed(done) == ~done.ok

\* signup_for_activity_endpoint, lines 191-194: the insert.
SignupInsert(t, email) ==
    /\ response = NoResponse
    /\ pc[t] = "signup_insert"
    /\ LET done == signup_for_activity(participants, local[t].name, email)
       IN IF signup_failed(done)
          THEN /\ response' = Resp(400, "Already signed up or invalid email", NoToken, 2)
               /\ UNCHANGED participants
          ELSE /\ response' = Resp(200, "Successfully signed up", NoToken, 2)
               /\ participants' = done.participants
    /\ pc' = [pc EXCEPT ![t] = "idle"]
    /\ local' = [local EXCEPT ![t] = NoLocal]
    /\ UNCHANGED <<users, now, issued>>

\* unregister_from_activity_endpoint, line 201: Depends(verify_token) raised 401.
unregister_token_rejected(token) == ~verify_token(token, now)

\* unregister_from_activity_endpoint, line 204: the test of
\* unregister_from_activity's result.
unregister_failed_ignored(done) == FALSE
unregister_failed(done) == ~done.ok

\* unregister_from_activity_endpoint, lines 198-207.
unregister_from_activity_endpoint(token, activity_name, email) ==
    /\ response = NoResponse
    /\ LET done == unregister_from_activity(participants, activity_name, email)
       IN IF unregister_token_rejected(token)
          THEN /\ response' = Resp(401, "Invalid or expired token", NoToken, 0)
               /\ UNCHANGED participants
          ELSE IF unregister_failed(done)
          THEN /\ response' = Resp(400, "Not signed up for this activity", NoToken, 1)
               /\ UNCHANGED participants
          ELSE /\ response' = Resp(200, "Successfully unregistered", NoToken, 1)
               /\ participants' = done.participants
    /\ UNCHANGED <<users, now, issued, pc, local>>

\* The answer of the step just taken goes out to the client (a handler's
\* return or raise) before the server takes its next step: every step below
\* starts with no answer pending.
Deliver ==
    /\ response # NoResponse
    /\ response' = NoResponse
    /\ UNCHANGED <<users, participants, now, issued, pc, local>>

Next ==
    \/ Deliver
    \/ Tick
    \/ \E t \in Threads, email \in Emails : RegisterCheck(t, email)
    \/ \E t \in Threads, password \in Passwords : RegisterCreate(t, password)
    \/ \E email \in Emails, password \in Passwords : login(email, password)
    \/ \E activity_name \in ActivityNames : get_activity(activity_name)
    \/ \E t \in Threads, token \in Presentable(now), activity_name \in ActivityNames :
          SignupCheck(t, token, activity_name)
    \/ \E t \in Threads, email \in Emails : SignupInsert(t, email)
    \/ \E token \in Presentable(now), activity_name \in ActivityNames, email \in Emails :
          unregister_from_activity_endpoint(token, activity_name, email)

Spec == Init /\ [][Next]_vars

\* ---------------------------------------------------------------- claims

\* The request carries a token that register or login returned and that has
\* not expired.
Authenticated(token) == token \in issued /\ now < token.exp

HasAccount(email) == \E row \in users : row.email = email

Rejected401 == Resp(401, "Invalid or expired token", NoToken, 0)

\* C1: in every reachable state, also when signups for one activity
\* interleave between the count's read and the insert, no activity has more
\* participants than its max_participants.
CapacityNeverExceeded ==
    \A a \in Activities : participant_count(participants, a) <= max_participants[a]

\* C2: an authenticated signup for an existing activity whose
\* participant_count is at least max_participants answers 400 'Activity is
\* full', changes no roster, and ends there: the email of the request is
\* never read, so the answer is the same whatever it is.
FullSignupRejected ==
    [][\A t \in Threads, token \in Presentable(now), a \in Activities :
          (/\ SignupCheck(t, token, a)
           /\ Authenticated(token)
           /\ participant_count(participants, a) >= max_participants[a])
          => /\ response' = Resp(400, "Activity is full", NoToken, 1)
             /\ participants' = participants
             /\ pc'[t] = "idle"]_vars

FullSignupRejectedWitness ==
    /\ response = Resp(400, "Activity is full", NoToken, 1)
    /\ \E a \in Activities : \E e \in Emails : participants[a][e] > 0

\* C3: a signup whose email is already a participant of the activity answers
\* 400 and changes no roster, and in every reachable state no email has more
\* than one row in any activity, also when two signups of one email for one
\* activity interleave.
DuplicateSignupRejected ==
    /\ [](\A a \in Activities, e \in Emails : participants[a][e] <= 1)
    /\ [][\A t \in Threads, e \in Emails :
             (SignupInsert(t, e) /\ participants[local[t].name][e] > 0)
             => /\ response' = Resp(400, "Already signed up or invalid email", NoToken, 2)
                /\ participants' = participants]_vars

DuplicateSignupRejectedWitness ==
    /\ response = Resp(400, "Already signed up or invalid email", NoToken, 2)
    /\ \E a \in Activities : \E e \in Emails : participants[a][e] = 1

\* C4: a register for an email that has an account answers 400, returns no
\* token and leaves the users table as it is, at the get_user check and,
\* when another register created the account in between, at create_user; a
\* register whose email still has no account at create_user succeeds; no
\* step removes or changes a row; and no email ever has two accounts.
DuplicateRegisterRejected ==
    /\ [](\A r1 \in users, r2 \in users : r1.email = r2.email => r1 = r2)
    /\ [][/\ \A t \in Threads, e \in Emails :
                (RegisterCheck(t, e) /\ HasAccount(e))
                => /\ response' = Resp(400, "Email already registered", NoToken, 1)
                   /\ users' = users
                   /\ issued' = issued
          /\ \A t \in Threads, p \in Passwords :
                RegisterCreate(t, p)
                => IF HasAccount(local[t].email)
                   THEN /\ response'.status = 400
                        /\ response'.token = NoToken
                        /\ users' = users
                        /\ issued' = issued
                   ELSE /\ response'.status = 200
                        /\ \E row \in users' : row.email = local[t].email
          /\ users \subseteq users']_vars

\* Two registers of one email interleaved: the second create_user failed.
DuplicateRegisterRejectedWitness ==
    /\ response = Resp(400, "Failed to create user", NoToken, 2)
    /\ users # {}

\* C5: a login returns a token exactly when the email has an account whose
\* stored hash the password verifies against; otherwise, for an unknown email
\* as for a wrong password, it answers 401 'Invalid email or password',
\* returns no token, issues none and changes nothing.
LoginOnlyWithPassword ==
    [][\A e \in Emails, p \in Passwords :
          login(e, p)
          => IF \E row \in users : row.email = e /\ verify_password(p, row.password_hash)
             THEN /\ response'.status = 200
                  /\ response'.token.email = e
                  /\ response'.token.sig = "signed"
             ELSE /\ response' = Resp(401, "Invalid email or password", NoToken, 1)
                  /\ issued' = issued
                  /\ UNCHANGED <<users, participants, pc, local>>]_vars

\* Every email has an account, so this 401 answered a wrong password.
LoginOnlyWithPasswordWitness ==
    /\ response = Resp(401, "Invalid email or password", NoToken, 1)
    /\ \A e \in Emails : HasAccount(e)

\* C6: a signup or unregister whose token is missing, forged or expired
\* answers 401 before any database call and changes no roster; a handler
\* gets past the token only with one that register or login issued and that
\* has not expired, as the user of that token; and only such handlers change
\* a roster.
OnlyAuthenticatedChangeRosters ==
    [][/\ (\E token \in Presentable(now) :
              /\ ~Authenticated(token)
              /\ \/ \E t \in Threads, name \in ActivityNames :
                       SignupCheck(t, token, name)
                 \/ \E name \in ActivityNames, e \in Emails :
                       unregister_from_activity_endpoint(token, name, e))
          => response' = Rejected401 /\ UNCHANGED <<participants, pc, local>>
       /\ \A t \in Threads :
             (pc[t] # "signup_insert" /\ pc'[t] = "signup_insert")
             => \E token \in issued : now < token.exp /\ local'[t].user = token.email
       /\ participants' # participants
          => \/ \E t \in Threads : pc[t] = "signup_insert" /\ pc'[t] = "idle"
             \/ \E token \in issued, name \in Activities, e \in Emails :
                   /\ now < token.exp
                   /\ unregister_from_activity_endpoint(token, name, e)]_vars

\* An expired token is in circulation and a request was answered 401.
OnlyAuthenticatedChangeRostersWitness ==
    /\ response = Rejected401
    /\ \E token \in issued : now >= token.exp
    /\ \E a \in Activities : \E e \in Emails : participants[a][e] > 0

\* C7: get activity, signup and unregister, when they name an activity that
\* does not exist (and, where a token is required, carry a good one), answer
\* 404 and change nothing.
UnknownActivityIs404 ==
    [][\A name \in ActivityNames \ Activities :
          /\ get_activity(name)
             => response'.status = 404 /\ UNCHANGED <<users, participants>>
          /\ \A t \in Threads, token \in Presentable(now) :
                (SignupCheck(t, token, name) /\ Authenticated(token))
                => response'.status = 404 /\ UNCHANGED <<users, participants>>
          /\ \A token \in Presentable(now), e \in Emails :
                (unregister_from_activity_endpoint(token, name, e) /\ Authenticated(token))
                => response'.status = 404 /\ UNCHANGED <<users, participants>>]_vars

\* C8: the email a signup adds to a roster, and the email an unregister
\* removes from one, is the email of the request's token.
SignupOnlyOwnEmail ==
    [][/\ \A t \in Threads, e \in Emails :
             (SignupInsert(t, e) /\ participants' # participants)
             => e = local[t].user
       /\ \A token \in Presentable(now), name \in Activities, e \in Emails :
             (unregister_from_activity_endpoint(token, name, e) /\ participants' # participants)
             => e = token.email]_vars

\* C9: a register that reaches create_user for an email without an account
\* adds exactly one row, for that email, whose hash its password verifies
\* against, and returns a signed token for that email with role 'student';
\* no step removes or changes a row; and a login with an account's email and
\* a password that verifies against its hash returns a signed token for that
\* email with the account's stored role.
RegisterThenLogin ==
    [][/\ \A t \in Threads, p \in Passwords :
             (RegisterCreate(t, p) /\ ~HasAccount(local[t].email))
             => /\ \E row \in users' :
                      /\ users' = users \cup {row}
                      /\ row.email = local[t].email
                      /\ verify_password(p, row.password_hash)
                /\ response'.status = 200
                /\ response'.token.email = local[t].email
                /\ response'.token.role = "student"
                /\ response'.token.sig = "signed"
                /\ response'.token \in issued'
       /\ users \subseteq users'
       /\ \A e \in Emails, p \in Passwords :
             (login(e, p) /\ \E row \in users : row.email = e /\ verify_password(p, row.password_hash))
             => /\ response'.status = 200
                /\ response'.token.email = e
                /\ response'.token.role = get_user(users, e).role
                /\ response'.token.sig = "signed"
                /\ response'.token \in issued']_vars

RegisterThenLoginWitness ==
    /\ response.status = 200
    /\ response.detail = "logged in"
    /\ HasAccount(response.token.email)

\* C10: an authenticated unregister of a participant answers 200 and removes
\* that email from that activity and nothing else; of an email that is not a
\* participant of the activity, it answers 400 and changes nothing; and the
\* roster right after a successful signup, with the signed-up email removed
\* from the activity again, is the roster before the signup.
UnregisterRemovesExactly ==
    [][/\ \A token \in issued, name \in ActivityNames, e \in Emails :
             (now < token.exp /\ unregister_from_activity_endpoint(token, name, e))
             => IF name \in Activities /\ participants[name][e] > 0
                THEN /\ response'.status = 200
                     /\ participants' = [participants EXCEPT ![name][e] = 0]
                     /\ UNCHANGED <<users, issued>>
                ELSE /\ response'.status = 400
                     /\ UNCHANGED <<participants, users, issued>>
       /\ \A t \in Threads, e \in Emails :
             (SignupInsert(t, e) /\ response'.status = 200)
             => /\ participants'[local[t].name][e] > 0
                /\ [participants' EXCEPT ![local[t].name][e] = 0] = participants]_vars

UnregisterRemovesExactlyWitness ==
    /\ response = Resp(200, "Successfully unregistered", NoToken, 1)
    /\ \E a \in Activities : \E e \in Emails : participants[a][e] > 0
====
